---- MODULE Spec2Model ----
(***************************************************************************)
(* Model of extrainterpreters.Interpreter: one controller-side worker      *)
(* object, its memory-mapped channel, the sub-interpreter that serves it,   *)
(* the controller's main thread and the background threads started by      *)
(* run_in_thread.                                                          *)
(*                                                                         *)
(* The channel is modelled cell by cell.  The sizes of the source are      *)
(* scaled by 1/500000 (BFSZ 10_000_000 -> 20, RET_OFFSET 8_000_000 -> 16), *)
(* which keeps every relation between them: the payload region is four     *)
(* times the return region, and BFSZ - RET_OFFSET < RET_OFFSET.            *)
(***************************************************************************)
EXTENDS Integers, Sequences, FiniteSets, TLC

\* ---------------------------------------------------------------- bounds
MaxThreads == 2      \* background threads alive at the same time
MaxCalls == 2        \* calls issued on the worker in one behaviour
MaxControllers == 2  \* controller threads that call start() and close()
MaxHash == 2         \* function objects the controller binds to one name

\* ------------------------------------------------------ program constants
BFSZ == 20
RET_OFFSET == 16
PAYLOAD_BUFFER == RET_OFFSET
RETURN_BUFFER == BFSZ - RET_OFFSET

\* self.intno: None before start(), an id of interpreters.create() while
\* started, False (the integer 0, also the id of the main interpreter) after
\* close().
NoneId == 0 - 1
FalseId == 0
FirstId == 1
NotCalled == 0 - 2

\* ------------------------------------------------------------- the bytes
Cells == 0 .. (BFSZ - 1)

\* b"\x00", the fill of the backing file
Zero == [op |-> "NUL", kind |-> "none", val |-> 0, n |-> 0]
\* the byte written by map[RET_OFFSET] = True
TrueByte == [op |-> "ONE", kind |-> "none", val |-> 0, n |-> 0]

ZeroFile == [i \in Cells |-> Zero]

\* ----------------------------------------------------- values and pickle
\* A Python object as far as pickle is concerned: what it is, the size of
\* its pickle in cells, and whether pickle can encode it at all.
NoObj == [kind |-> "none", val |-> 0, size |-> 0, ok |-> TRUE]
Garbage(k, s) == [kind |-> k, val |-> 0 - 1, size |-> s, ok |-> TRUE]

Min(a, b) == IF a < b THEN a ELSE b

\* The j-th cell of pickle.dumps(obj): the PROTO header carries the length
\* (pickle frames itself), the rest is payload.
DataCell(k, v, j) == [op |-> "DATA", kind |-> k, val |-> v, n |-> j]

PickleCell(obj, j) ==
    IF j = 0
    THEN [op |-> "PROTO", kind |-> obj.kind, val |-> obj.val, n |-> obj.size]
    ELSE DataCell(obj.kind, obj.val, j)

\* pickle.dump(obj, m) with the cursor of m at p.  An object pickle cannot
\* encode raises PicklingError with nothing written.  The pickler hands its
\* output to m.write() one frame (cell) at a time; mmap.write raises
\* ValueError("data out of range") for the first frame that does not fit,
\* the frames before it stay written.
Dump(m, p, obj) ==
    IF ~obj.ok
    THEN [mem |-> m, pos |-> p, exc |-> "PicklingError"]
    ELSE LET k == Min(obj.size, BFSZ - p)
         IN  [mem |-> [i \in Cells |->
                          IF i >= p /\ i < p + k THEN PickleCell(obj, i - p)
                                                 ELSE m[i]],
              pos |-> p + k,
              exc |-> IF k < obj.size THEN "ValueError" ELSE "none"]

\* pickle.load(m) with the cursor of m at p: reads one pickle.  A first byte
\* that is no PROTO opcode is an invalid load key; a pickle that runs past
\* the end of the map is truncated; payload bytes are not checked by pickle,
\* so payload that belongs to another pickle decodes to a garbage value.
Load(m, p) ==
    IF p >= BFSZ
    THEN [obj |-> NoObj, pos |-> p, exc |-> "EOFError"]
    ELSE LET h == m[p] IN
         IF h.op # "PROTO"
         THEN [obj |-> NoObj, pos |-> p + 1, exc |-> "UnpicklingError"]
         ELSE IF p + h.n > BFSZ
         THEN [obj |-> NoObj, pos |-> BFSZ, exc |-> "EOFError"]
         ELSE IF \E j \in 1 .. (h.n - 1) : m[p + j].op # "DATA"
         THEN [obj |-> NoObj, pos |-> p + h.n, exc |-> "UnpicklingError"]
         ELSE IF \E j \in 1 .. (h.n - 1) : m[p + j] # DataCell(h.kind, h.val, j)
         THEN [obj |-> Garbage(h.kind, h.n), pos |-> p + h.n, exc |-> "none"]
         ELSE [obj |-> [kind |-> h.kind, val |-> h.val, size |-> h.n, ok |-> TRUE],
               pos |-> p + h.n, exc |-> "none"]

\* ------------------------------------------------------------ the inputs
\* Callables that pickle by reference (importable in the worker):
\* 1 returns its argument, 2 returns a recognisably different, longer value,
\* 3 raises.
FuncIds == 1 .. 3
Func(v) == [kind |-> "func", val |-> v, size |-> 1, ok |-> TRUE]
Funcs == {Func(v) : v \in FuncIds}

\* Argument tuples: a small one, one whose request passes BFSZ - RET_OFFSET
\* but fits the payload region, one that reaches into the return region, one
\* that does not fit the map, and one pickle cannot encode.
Arg(v, s, k) == [kind |-> "args", val |-> v, size |-> s, ok |-> k]
SmallArg == Arg(1, 1, TRUE)
OtherArgs == {Arg(1, 2, TRUE), Arg(1, RET_OFFSET, TRUE), Arg(1, BFSZ, TRUE),
              Arg(1, 1, FALSE)}

\* The calls the controller makes.
Requests == {[func |-> f, args |-> SmallArg] : f \in Funcs}
               \cup {[func |-> Func(1), args |-> a] : a \in OtherArgs}

\* kwargs or {}
EmptyKw == [kind |-> "kwargs", val |-> 0, size |-> 1, ok |-> TRUE]

\* func(*args, **kw): what the callable does, here and in the worker.
Apply(func, args, kw) ==
    IF func.kind # "func" \/ args.kind # "args" \/ kw.kind # "kwargs"
    THEN [exc |-> TRUE, obj |-> NoObj]
    ELSE IF func.val = 1
    THEN [exc |-> FALSE,
          obj |-> [kind |-> "ret", val |-> args.val, size |-> 1, ok |-> TRUE]]
    ELSE IF func.val = 2
    THEN [exc |-> FALSE,
          obj |-> [kind |-> "ret",
                   val |-> IF args.val < 0 THEN args.val ELSE args.val + 1,
                   size |-> 2, ok |-> TRUE]]
    ELSE [exc |-> TRUE, obj |-> NoObj]

\* The size of the encoded request.
RequestSize(func, args) == func.size + args.size + EmptyKw.size
Encodable(func, args) == func.ok /\ args.ok

\* -------------------------------------------------------------- the state
\* The cursor of self.map is no variable: every use of it follows a seek().
VARIABLES
    intno,                \* self.intno
    file,                 \* self.file: "unset", "open", "closed"
    fs,                   \* whether the file self.fname exists on disk
    map,                  \* self.map: "unset", "open" (an mmap), "None"
    mem,                  \* the bytes of the backing file, shared by both maps
    thread,               \* self.thread: 0 for None, else a thread
    exception,            \* self.exception
    running_interpreters, \* the module's WeakSet
    interp,               \* the interpreters module: live and running ids
    ctx,                  \* the sub-interpreter's side: where _call(0) stands
    callers,              \* the main thread (0) and the background threads
    last,                 \* outcome of the last operation of the main thread
    cur,                  \* the call issued last on the worker
    ncalls,               \* how many calls have been issued
    lock,                 \* self.lock: 0 when free, else the thread that holds it
    ctl,                  \* controller threads inside start() and close()
    fname,                \* self.fname: 0 before start(), else a file name
    disk,                 \* the backing files that exist on disk
    created,              \* how many times interpreters.create() was called
    main_globals,         \* sys.modules["__main__"].__dict__ of the controller
    source_handled,       \* self._source_handled
    remote,               \* the names bound in the worker's __main__
    rlast                 \* outcome of the last call with an ad hoc callable

\* What start() and close() step by step work on, beside the worker's fields.
lifevars == <<lock, ctl, fname, disk, created>>

\* What replication of an ad hoc callable works on.
replvars == <<main_globals, source_handled, remote, rlast>>

\* What the calls on a started worker leave alone.
offstage == <<lifevars, replvars>>

vars == <<intno, file, fs, map, mem, thread, exception,
          running_interpreters, interp, ctx, callers, last, cur, ncalls,
          offstage>>

Self == "worker"
Threads == 1 .. MaxThreads
Callers == 0 .. MaxThreads

FreeSlot == [pc |-> "free", op |-> "none", func |-> NoObj, args |-> NoObj]
MainReady == [pc |-> "ready", op |-> "none", func |-> NoObj, args |-> NoObj]
Finished == [pc |-> "finished", op |-> "none", func |-> NoObj, args |-> NoObj]
IdleCtx == [pc |-> "idle", caller |-> 0, res |-> NoObj, widx |-> 0]

\* The call issued last: the caller that runs its execute(), how it was
\* issued, how far it is, whether any other call was under way when it was
\* issued, and what the callable gives when called locally.
NoCall == [c |-> 0, how |-> "none", st |-> "none", solo |-> TRUE,
           want |-> [exc |-> TRUE, obj |-> NoObj]]

\* What the main thread saw of its last operation: the operation, the
\* exception it raised, the value it returned (ret, or flag for a boolean;
\* for result(), flag is what done() would have said) and the id it passed
\* to interpreters.destroy.
MkLast(o, e, r, f, d) ==
    [op |-> o, exc |-> e, ret |-> r, flag |-> f, destroy |-> d]

\* A controller thread outside start() and close(), with the last of these
\* it called and what that raised.
Outside(o, e) == [pc |-> "idle", op |-> o, exc |-> e]

Controllers == 1 .. MaxControllers

LifeInit ==
    /\ lock = 0
    /\ ctl = [t \in Controllers |-> Outside("none", "none")]
    /\ fname = 0
    /\ disk = {}
    /\ created = 0

\* ------------------------------------------- objects of __main__
\* What a name of the controller's top-level scope is bound to: a function
\* (with its __name__, its __module__, its hash() and whether its source
\* can be got and evaluated in the worker), a module, or nothing.
NoBinding == [kind |-> "none", name |-> "", mod |-> "", hash |-> 0, src |-> FALSE]
Def(n, h, ok) ==
    [kind |-> "function", name |-> n, mod |-> "__main__", hash |-> h, src |-> ok]
Imported(m, n) ==
    [kind |-> "function", name |-> n, mod |-> m, hash |-> 0, src |-> TRUE]
Module(m) == [kind |-> "module", name |-> m, mod |-> "", hash |-> 0, src |-> FALSE]

\* The names of the controller's scope, in the order of the dict, and the
\* modules: textwrap can be imported in the worker, numpy cannot.
GlobalOrder == <<"f", "g", "D", "np", "numpy">>
GlobalNames == {GlobalOrder[i] : i \in 1 .. Len(GlobalOrder)}
Importable == {"textwrap"}
Keys == GlobalNames \cup {"textwrap"}

\* An entry of self._source_handled: none, "module", or a hash.
NoEntry == [kind |-> "absent", hash |-> 0]
ModuleEntry == [kind |-> "module", hash |-> 0]
HashEntry(h) == [kind |-> "hash", hash |-> h]

NoReplication == [exc |-> "none", sent |-> <<>>, trigger |-> FALSE, before |-> NoEntry]

ReplInit ==
    /\ main_globals = [n \in GlobalNames |->
                         IF n = "f" THEN Def("f", 1, TRUE) ELSE NoBinding]
    /\ source_handled = [k \in Keys |-> NoEntry]
    /\ remote = {}
    /\ rlast = NoReplication

Init ==
    /\ LifeInit
    /\ ReplInit
    /\ intno = NoneId
    /\ file = "unset"
    /\ fs = FALSE
    /\ map = "unset"
    /\ mem = ZeroFile
    /\ thread = 0
    /\ exception = 0
    /\ running_interpreters = {}
    /\ interp = [live |-> {}, running |-> {}]
    /\ ctx = IdleCtx
    /\ callers = [c \in Callers |-> IF c = 0 THEN MainReady ELSE FreeSlot]
    /\ last = MkLast("init", "none", NoObj, FALSE, NotCalled)
    /\ cur = NoCall
    /\ ncalls = 0

\* A thread object nothing refers to any more is gone once it has finished.
Unref(cs, t) ==
    IF t # 0 /\ cs[t].pc = "finished" THEN [cs EXCEPT ![t] = FreeSlot] ELSE cs

\* No call is between its issue and the return of its execute().
Quiet ==
    /\ callers[0].pc = "ready"
    /\ \A t \in Threads : callers[t].pc \in {"free", "finished"}
    /\ ctx.pc = "idle"

\* ------------------------------------------------- Interpreter.start
\* As "if self.intno:" would test it.
AlreadyStartedTruthy == intno # NoneId /\ intno # FalseId

\* if self.intno is not None
AlreadyStarted == intno # NoneId

Start ==
    /\ callers[0].pc = "ready"
    /\ IF AlreadyStarted
       THEN /\ last' = MkLast("start", "RuntimeError", NoObj, FALSE, NotCalled)
            /\ UNCHANGED <<intno, file, fs, map, mem, thread, exception,
                           running_interpreters, interp, ctx, callers, cur, ncalls>>
       ELSE /\ intno' = FirstId
            /\ interp' = [interp EXCEPT !.live = @ \cup {FirstId}]
            /\ fs' = TRUE
            /\ file' = "open"
            /\ mem' = ZeroFile
            /\ map' = "open"
            /\ thread' = 0
            /\ callers' = Unref(callers, thread)
            /\ running_interpreters' = running_interpreters \cup {Self}
            /\ ctx' = IdleCtx
            /\ last' = MkLast("start", "none", NoObj, FALSE, NotCalled)
            /\ UNCHANGED <<exception, cur, ncalls>>

\* ------------------------------------------------- Interpreter.close
\* interpreters.destroy(id): None is no id; an id that names no live
\* sub-interpreter (0, which self.intno = False is, names the main
\* interpreter, the one calling) and a running one raise RuntimeError.
Destroy(id) ==
    IF id = NoneId THEN "TypeError"
    ELSE IF id \notin interp.live THEN "RuntimeError"
    ELSE IF id \in interp.running THEN "RuntimeError"
    ELSE "none"

\* destroy raised: close() raises it, inside "with self.lock".
CloseRaises ==
    /\ last' = MkLast("close", Destroy(intno), NoObj, FALSE, intno)
    /\ UNCHANGED <<intno, file, fs, map, mem, thread, exception,
                   running_interpreters, interp, ctx, callers, cur, ncalls>>

\* close() that leaves the registry as it is.
CloseTeardownKeepsEntry ==
    /\ interp' = [live |-> interp.live \ {intno}, running |-> interp.running \ {intno}]
    /\ ctx' = IdleCtx
    /\ map' = "None"
    /\ file' = "closed"
    /\ fs' = FALSE
    /\ intno' = FalseId
    /\ thread' = 0
    /\ callers' = Unref(callers, thread)
    /\ last' = MkLast("close", "none", NoObj, FALSE, intno)
    /\ UNCHANGED <<mem, exception, cur, ncalls, running_interpreters>>

\* The rest of close(), after destroy went through.
CloseTeardown ==
    /\ interp' = [live |-> interp.live \ {intno}, running |-> interp.running \ {intno}]
    /\ ctx' = IdleCtx
    /\ map' = "None"
    /\ file' = "closed"
    /\ fs' = FALSE
    /\ intno' = FalseId
    /\ thread' = 0
    /\ callers' = Unref(callers, thread)
    /\ running_interpreters' = running_interpreters \ {Self}
    /\ last' = MkLast("close",
                      IF Self \in running_interpreters THEN "none" ELSE "NameError",
                      NoObj, FALSE, intno)
    /\ UNCHANGED <<mem, exception, cur, ncalls>>

\* close() with "except RuntimeError: pass" around destroy.
CloseSwallowing ==
    /\ callers[0].pc = "ready"
    /\ IF Destroy(intno) = "TypeError" \/ intno \notin interp.live
       THEN CloseRaises
       ELSE CloseTeardown

Close ==
    /\ callers[0].pc = "ready"
    /\ IF Destroy(intno) # "none" THEN CloseRaises ELSE CloseTeardown

\* ----------------------------------------------- Interpreter.execute
\* The cursor value from which the request is refused.
PayloadLimit == BFSZ - RET_OFFSET

\* One round of the loop over (func, args, kwargs): dump, then the check.
\* Only ValueError is caught; PicklingError leaves execute() as it is.
EncodeStep(st, obj) ==
    IF st.exc # "none" THEN st
    ELSE LET d == Dump(st.mem, st.pos, obj) IN
         IF d.exc = "PicklingError" THEN d
         ELSE IF d.exc = "ValueError" \/ d.pos >= PayloadLimit
         THEN [mem |-> d.mem, pos |-> d.pos, exc |-> "RuntimeError(payload)"]
         ELSE d

\* self.map.seek(0) and the loop, on the bytes m.
Encode(m, func, args, kw) ==
    EncodeStep(EncodeStep(EncodeStep([mem |-> m, pos |-> 0, exc |-> "none"],
                                     func), args), kw)

\* self.map[RET_OFFSET] == 0: a comparison whose value is dropped.  It
\* leaves the bytes m of the map as they are, and raises when self.map is
\* no map.
FlagReset(m) == m

\* The request as execute() leaves it in the map.
Request(func, args) == Encode(FlagReset(mem), func, args, EmptyKw)

\* interpreters.run_string(self.intno, "_call(0)") on a sub-interpreter that
\* is running raises RuntimeError, which execute() does not catch.
TriggerExc == IF intno \in interp.running THEN "RuntimeError(running)" ELSE "none"

\* The exception execute() raises before the worker starts on the call.
SendExc(func, args) ==
    IF intno = NoneId THEN "RuntimeError(not initialized)"
    ELSE IF map # "open" THEN "TypeError"
    ELSE IF Request(func, args).exc # "none"
    THEN Request(func, args).exc
    ELSE TriggerExc

\* In last: the main thread is inside the call, waiting for run_string.
InCall == "(in call)"

Ended(c) == IF c = 0 THEN MainReady ELSE IF thread = c THEN Finished ELSE FreeSlot

Active == {"inflight", "writing", "written"}

\* execute() up to and including the trigger, in caller c.
Send(c, o, func, args) ==
    /\ mem' = IF intno # NoneId /\ map = "open" THEN Request(func, args).mem ELSE mem
    /\ IF SendExc(func, args) = "none"
       THEN /\ interp' = [interp EXCEPT !.running = @ \cup {intno}]
            /\ ctx' = [pc |-> "thaw", caller |-> c, res |-> NoObj, widx |-> 0]
            /\ callers' = [callers EXCEPT ![c] =
                             [pc |-> "waiting", op |-> o, func |-> func,
                              args |-> args]]
       ELSE /\ callers' = [callers EXCEPT ![c] = Ended(c)]
            /\ UNCHANGED <<interp, ctx>>
    /\ UNCHANGED <<intno, file, fs, map, thread, exception, running_interpreters>>

Issue(c, h, func, args, e) ==
    [c |-> c, how |-> h, st |-> IF e = "none" THEN "inflight" ELSE "failed",
     solo |-> Quiet, want |-> Apply(func, args, EmptyKw)]

\* execute(func, args) called on the main thread.
Execute(func, args) ==
    /\ callers[0].pc = "ready"
    /\ ncalls < MaxCalls
    /\ ncalls' = ncalls + 1
    /\ Send(0, "execute", func, args)
    /\ cur' = Issue(0, "execute", func, args, SendExc(func, args))
    /\ last' = IF SendExc(func, args) # "none"
               THEN MkLast("execute", SendExc(func, args), NoObj, FALSE, NotCalled)
               ELSE MkLast("execute", InCall, NoObj, FALSE, NotCalled)

\* run(func, *args) called on the main thread: execute(), then result().
Run(func, args) ==
    /\ callers[0].pc = "ready"
    /\ ncalls < MaxCalls
    /\ ncalls' = ncalls + 1
    /\ Send(0, "run", func, args)
    /\ cur' = Issue(0, "run", func, args, SendExc(func, args))
    /\ last' = IF SendExc(func, args) # "none"
               THEN MkLast("run", SendExc(func, args), NoObj, FALSE, NotCalled)
               ELSE MkLast("run", InCall, NoObj, FALSE, NotCalled)

\* ------------------------------------------ Interpreter.run_in_thread
RunInThread(func, args) ==
    /\ callers[0].pc = "ready"
    /\ ncalls < MaxCalls
    /\ ncalls' = ncalls + 1
    /\ \E x \in Threads : Unref(callers, thread)[x].pc = "free"
    /\ LET cs == Unref(callers, thread)
           t == CHOOSE x \in Threads : cs[x].pc = "free"
                     /\ \A y \in Threads : cs[y].pc = "free" => x <= y
       IN  /\ callers' = [cs EXCEPT ![t] = [pc |-> "start", op |-> "execute",
                                            func |-> func, args |-> args]]
           /\ thread' = t
           /\ cur' = Issue(t, "thread", func, args, "none")
           /\ last' = MkLast("run_in_thread", "none", NoObj, TRUE, NotCalled)
    /\ UNCHANGED <<intno, file, fs, map, mem, exception,
                   running_interpreters, interp, ctx>>

\* The background thread runs execute().  What it raises ends the thread
\* and goes to the thread's excepthook.
ThreadExecute(t) ==
    /\ callers[t].pc = "start"
    /\ Send(t, "execute", callers[t].func, callers[t].args)
    /\ cur' = IF cur.c = t /\ cur.st \in Active
                 /\ SendExc(callers[t].func, callers[t].args) # "none"
              THEN [cur EXCEPT !.st = "failed"] ELSE cur
    /\ UNCHANGED <<last, ncalls>>

\* ------------------------------------------- the worker side: _call(0)
\* _thaw(0) and func(*args, **kw), on the worker's own map of the file.
RemoteCall ==
    /\ ctx.pc = "thaw"
    /\ LET l1 == Load(mem, 0)
           l2 == Load(mem, l1.pos)
           l3 == Load(mem, l2.pos)
           bad == l1.exc # "none" \/ l2.exc # "none" \/ l3.exc # "none"
           r == Apply(l1.obj, l2.obj, l3.obj)
       IN  ctx' = IF bad \/ r.exc
                  THEN [ctx EXCEPT !.pc = "raised"]
                  ELSE [ctx EXCEPT !.pc = "write", !.res = r.obj]
    /\ UNCHANGED <<intno, file, fs, map, mem, thread, exception,
                   running_interpreters, interp, callers, last, cur, ncalls>>

\* _m.seek(RET_OFFSET); pickle.dump(result, _m): the bytes of the result
\* reach the shared file one after the other.
RemoteWrite ==
    /\ ctx.pc = "write"
    /\ mem' = [mem EXCEPT ![RET_OFFSET + ctx.widx] = PickleCell(ctx.res, ctx.widx)]
    /\ ctx' = [ctx EXCEPT !.widx = @ + 1,
                          !.pc = IF ctx.widx + 1 = ctx.res.size THEN "done" ELSE "write"]
    /\ cur' = IF cur.c = ctx.caller /\ cur.st \in Active
              THEN [cur EXCEPT !.st = IF ctx.widx + 1 = ctx.res.size
                                      THEN "written" ELSE "writing"]
              ELSE cur
    /\ UNCHANGED <<intno, file, fs, map, thread, exception,
                   running_interpreters, interp, callers, last, ncalls>>

\* ------------------------------- Interpreter.done, Interpreter.result
\* self.map[RET_OFFSET] != 0
Flag == mem[RET_OFFSET] # Zero

Done ==
    /\ callers[0].pc = "ready"
    /\ last' = IF map = "open"
               THEN MkLast("done", "none", NoObj, Flag, NotCalled)
               ELSE MkLast("done", IF map = "unset" THEN "AttributeError"
                                                    ELSE "TypeError",
                           NoObj, FALSE, NotCalled)
    /\ UNCHANGED <<intno, file, fs, map, mem, thread, exception,
                   running_interpreters, interp, ctx, callers, cur, ncalls>>

\* "if not self.done": self.done is the bound method, not its value, and a
\* bound method is true.
NotDone == FALSE

\* self.map.seek(RET_OFFSET); pickle.load(self.map)
ResultLoad == Load(mem, RET_OFFSET)

ResultExc ==
    IF NotDone THEN "InvalidState"
    ELSE IF map # "open" THEN "AttributeError"
    ELSE ResultLoad.exc

\* result() called as operation o, with cs the threads as they are then;
\* the value is decoded before the thread is joined, and the main thread
\* then waits in join() for as long as the thread lives.
ResultEffect(o, cs) ==
    /\ last' = MkLast(o, ResultExc,
                      IF ResultExc = "none" THEN ResultLoad.obj ELSE NoObj,
                      map = "open" /\ Flag, NotCalled)
    /\ IF ResultExc = "none" /\ thread # 0
       THEN IF cs[thread].pc = "finished"
            THEN /\ thread' = 0
                 /\ callers' = Unref(cs, thread)
            ELSE /\ thread' = thread
                 /\ callers' = [cs EXCEPT ![0] = [MainReady EXCEPT !.pc = "joining"]]
       ELSE /\ thread' = thread
            /\ callers' = cs

Result ==
    /\ callers[0].pc = "ready"
    /\ ResultEffect("result", callers)
    /\ UNCHANGED <<intno, file, fs, map, mem, exception,
                   running_interpreters, interp, ctx, cur, ncalls>>

\* self.thread.join() returns; self.thread = None; return result
JoinReturn ==
    /\ callers[0].pc = "joining"
    /\ callers[thread].pc = "finished"
    /\ thread' = 0
    /\ callers' = [Unref(callers, thread) EXCEPT ![0] = MainReady]
    /\ UNCHANGED <<intno, file, fs, map, mem, exception,
                   running_interpreters, interp, ctx, last, cur, ncalls>>

\* ------------------- execute() after interpreters.run_string came back
\* run_string returns when _call(0) is through, and raises RunFailedError
\* when _call(0) raised; the handler of execute() then sets the flag byte
\* and keeps the error (here: the callable of the call that failed).
\* run() goes on to result().
\* The handler without its first line.
FailFlagMissing(m) == m

\* self.map[RET_OFFSET] = True
FailFlag(m) == [m EXCEPT ![RET_OFFSET] = TrueByte]

Resume(c) ==
    /\ ctx.pc \in {"done", "raised"}
    /\ ctx.caller = c
    /\ LET failed == ctx.pc = "raised"
           o == callers[c].op
           call == IF cur.c = c /\ cur.st \in Active
                   THEN [cur EXCEPT !.st = IF failed THEN "failed" ELSE "ok"]
                   ELSE cur
       IN  /\ interp' = [interp EXCEPT !.running = @ \ {intno}]
           /\ ctx' = IdleCtx
           /\ mem' = IF failed THEN FailFlag(mem) ELSE mem
           /\ exception' = IF failed THEN callers[c].func.val ELSE exception
           /\ cur' = call
           /\ IF c # 0
              THEN /\ callers' = [callers EXCEPT ![c] = Ended(c)]
                   /\ UNCHANGED <<thread, last>>
              ELSE IF failed \/ o = "execute"
              THEN /\ callers' = [callers EXCEPT ![0] = MainReady]
                   /\ last' = MkLast(o, IF failed THEN "RunFailedError" ELSE "none",
                                     NoObj, FALSE, NotCalled)
                   /\ UNCHANGED thread
              ELSE ResultEffect("run", [callers EXCEPT ![0] = MainReady])
    /\ UNCHANGED <<intno, file, fs, map, running_interpreters, ncalls>>

\* ------------------------------------------------- Interpreter.__del__
\* The controller has dropped its last reference to the worker.
Gone == [pc |-> "gone", op |-> "none", func |-> NoObj, args |-> NoObj]

\* As "if getattr(self, 'intno', None) is not None:" would test it.
DelGuardNotNone == intno # NoneId

\* if getattr(self, "intno", None): None and False are false, an id that
\* interpreters.create() returned is true.
DelGuard == intno # NoneId /\ intno # FalseId

\* The worker becomes unreachable and is finalized.  No thread is inside a
\* call on it (a thread that runs execute() holds the worker through the
\* bound method).  __del__ runs close() when the guard says so; what close()
\* raises there is printed and dropped.  The weak registry loses the worker
\* with the object in any case.
Del ==
    /\ Quiet
    /\ running_interpreters' = running_interpreters \ {Self}
    /\ IF ~DelGuard
       THEN /\ callers' = [callers EXCEPT ![0] = Gone]
            /\ last' = MkLast("__del__", "none", NoObj, FALSE, NotCalled)
            /\ UNCHANGED <<intno, file, fs, map, thread, interp, ctx>>
       ELSE IF Destroy(intno) # "none"
       THEN /\ callers' = [callers EXCEPT ![0] = Gone]
            /\ last' = MkLast("__del__", Destroy(intno), NoObj, FALSE, intno)
            /\ UNCHANGED <<intno, file, fs, map, thread, interp, ctx>>
       ELSE /\ interp' = [live |-> interp.live \ {intno},
                          running |-> interp.running \ {intno}]
            /\ ctx' = IdleCtx
            /\ map' = "None"
            /\ file' = "closed"
            /\ fs' = FALSE
            /\ intno' = FalseId
            /\ thread' = 0
            /\ callers' = [Unref(callers, thread) EXCEPT ![0] = Gone]
            /\ last' = MkLast("__del__", "none", NoObj, FALSE, intno)
    /\ UNCHANGED <<mem, exception, cur, ncalls>>

\* ------------------------------------------------------------ list_all
list_all == running_interpreters

\* ------------------------------------------------------ specification
Next ==
    \/ Start /\ UNCHANGED offstage
    \/ Close /\ UNCHANGED offstage
    \/ Done /\ UNCHANGED offstage
    \/ Result /\ UNCHANGED offstage
    \/ JoinReturn /\ UNCHANGED offstage
    \/ \E r \in Requests : Execute(r.func, r.args) /\ UNCHANGED offstage
    \/ \E r \in Requests : Run(r.func, r.args) /\ UNCHANGED offstage
    \/ \E r \in Requests : RunInThread(r.func, r.args) /\ UNCHANGED offstage
    \/ \E t \in Threads : ThreadExecute(t) /\ UNCHANGED offstage
    \/ RemoteCall /\ UNCHANGED offstage
    \/ RemoteWrite /\ UNCHANGED offstage
    \/ \E c \in Callers : Resume(c) /\ UNCHANGED offstage
    \/ Del /\ UNCHANGED offstage

Spec == Init /\ [][Next]_vars

\* The sub-interpreter runs _call(0) to its end (the callables terminate),
\* and interpreters.run_string then comes back to the thread that called it.
FairSpec ==
    /\ Spec
    /\ WF_vars(RemoteCall /\ UNCHANGED offstage)
    /\ WF_vars(RemoteWrite /\ UNCHANGED offstage)
    /\ WF_vars(\E c \in Callers : Resume(c) /\ UNCHANGED offstage)

\* =========================================== start() and close(), by line
\* Controller threads call start() and close() on the one worker at the same
\* time; each step is one stretch of the method between two points where
\* another thread can run.  No call is made on the worker meanwhile.
onstage == <<mem, exception, ctx, callers, last, cur, ncalls, replvars>>

At(t, p) == [ctl EXCEPT ![t] = [pc |-> p, op |-> ctl[t].op, exc |-> ctl[t].exc]]
Leaves(t, o, e) == [ctl EXCEPT ![t] = Outside(o, e)]

\* if self.intno is not None: raise RuntimeError("Interpreter already
\* started"); the test is made before the lock is taken.
StartCheck(t) ==
    /\ ctl[t].pc = "idle"
    /\ ctl' = IF AlreadyStarted THEN Leaves(t, "start", "RuntimeError")
                                ELSE At(t, "start:checked")
    /\ UNCHANGED <<intno, file, fs, map, thread, running_interpreters, interp,
                   lock, fname, disk, created>>

\* with self.lock:
StartLock(t) ==
    /\ ctl[t].pc = "start:checked"
    /\ lock = 0
    /\ lock' = t
    /\ ctl' = At(t, "start:locked")
    /\ UNCHANGED <<intno, file, fs, map, thread, running_interpreters, interp,
                   fname, disk, created>>

\* self.intno = interpreters.create(): every call gives a new id.
StartCreate(t) ==
    /\ ctl[t].pc = "start:locked"
    /\ intno' = FirstId + created
    /\ created' = created + 1
    /\ interp' = [interp EXCEPT !.live = @ \cup {FirstId + created}]
    /\ ctl' = At(t, "start:created")
    /\ UNCHANGED <<file, fs, map, thread, running_interpreters, lock, fname, disk>>

\* self.fname = tempfile.mktemp() (a new name; here the id just created),
\* the file is written and mapped.
StartOpen(t) ==
    /\ ctl[t].pc = "start:created"
    /\ fname' = intno
    /\ disk' = disk \cup {intno}
    /\ file' = "open"
    /\ fs' = TRUE
    /\ map' = "open"
    /\ ctl' = At(t, "start:mapped")
    /\ UNCHANGED <<intno, thread, running_interpreters, interp, lock, created>>

\* self.thread = None; running_interpreters.add(self);
\* self._init_interpreter(); the lock is released; return self
StartRegister(t) ==
    /\ ctl[t].pc = "start:mapped"
    /\ thread' = 0
    /\ running_interpreters' = running_interpreters \cup {Self}
    /\ lock' = 0
    /\ ctl' = Leaves(t, "start", "none")
    /\ UNCHANGED <<intno, file, fs, map, interp, fname, disk, created>>

\* close(): with self.lock:
CloseLock(t) ==
    /\ ctl[t].pc = "idle"
    /\ lock = 0
    /\ lock' = t
    /\ ctl' = At(t, "close:locked")
    /\ UNCHANGED <<intno, file, fs, map, thread, running_interpreters, interp,
                   fname, disk, created>>

\* interpreters.destroy(self.intno); what it raises leaves close(), and
\* the lock is released on the way out.
CloseDestroy(t) ==
    /\ ctl[t].pc = "close:locked"
    /\ IF Destroy(intno) # "none"
       THEN /\ lock' = 0
            /\ ctl' = Leaves(t, "close", Destroy(intno))
            /\ UNCHANGED interp
       ELSE /\ interp' = [live |-> interp.live \ {intno},
                          running |-> interp.running \ {intno}]
            /\ ctl' = At(t, "close:destroyed")
            /\ UNCHANGED lock
    /\ UNCHANGED <<intno, file, fs, map, thread, running_interpreters,
                   fname, disk, created>>

\* self.map.close(); self.file.close(); os.unlink(self.fname);
\* self.map = None; self.intno = False; the lock is released.
CloseFiles(t) ==
    /\ ctl[t].pc = "close:destroyed"
    /\ disk' = disk \ {fname}
    /\ fs' = FALSE
    /\ map' = "None"
    /\ file' = "closed"
    /\ intno' = FalseId
    /\ lock' = 0
    /\ ctl' = At(t, "close:unlocked")
    /\ UNCHANGED <<thread, running_interpreters, interp, fname, created>>

\* self.thread = None; running_interpreters.remove(self), whose KeyError
\* meets "except keyError", a name that is not defined.
CloseUnregister(t) ==
    /\ ctl[t].pc = "close:unlocked"
    /\ thread' = 0
    /\ running_interpreters' = running_interpreters \ {Self}
    /\ ctl' = Leaves(t, "close",
                     IF Self \in running_interpreters THEN "none" ELSE "NameError")
    /\ UNCHANGED <<intno, file, fs, map, interp, lock, fname, disk, created>>

LifeNext ==
    \/ \E t \in Controllers : StartCheck(t) /\ UNCHANGED onstage
    \/ \E t \in Controllers : StartLock(t) /\ UNCHANGED onstage
    \/ \E t \in Controllers : StartCreate(t) /\ UNCHANGED onstage
    \/ \E t \in Controllers : StartOpen(t) /\ UNCHANGED onstage
    \/ \E t \in Controllers : StartRegister(t) /\ UNCHANGED onstage
    \/ \E t \in Controllers : CloseLock(t) /\ UNCHANGED onstage
    \/ \E t \in Controllers : CloseDestroy(t) /\ UNCHANGED onstage
    \/ \E t \in Controllers : CloseFiles(t) /\ UNCHANGED onstage
    \/ \E t \in Controllers : CloseUnregister(t) /\ UNCHANGED onstage

LifeSpec == Init /\ [][LifeNext]_vars

\* ============================ replication of an ad hoc callable
\* execute() of a function of __main__ in an interactive session, on a
\* started worker: _prepare_interactive(func), then the request.
\* What the controller can type at the prompt for each name.
Bindable(n) ==
    IF n = "f" THEN {Def("f", h, ok) : h \in 1 .. MaxHash, ok \in BOOLEAN}
    ELSE IF n = "g" THEN {NoBinding, Def("g", 1, TRUE), Def("g", 1, FALSE)}
    ELSE IF n = "D" THEN {NoBinding, Imported("textwrap", "dedent")}
    ELSE IF n = "np" THEN {NoBinding, Module("numpy"), Module("textwrap")}
    ELSE {NoBinding, Module("numpy")}

\* Code sent with self.run_string.
Source(fn) == [code |-> "source", name |-> fn.name, arg |-> "", hash |-> fn.hash]
Import(m) == [code |-> "import", name |-> m, arg |-> "", hash |-> 0]
Assign(n, m) == [code |-> "assign", name |-> n, arg |-> m, hash |-> 0]

\* Replication under way: the cache, the worker's scope, the code sent so
\* far in this call, and the exception that ended it.
Under(st, e) == [st EXCEPT !.exc = e]

\* As "func.__name__ in self._source_handled" alone would test it.
SourceCachedByName(handled, fn) == handled[fn.name] # NoEntry

\* func.__name__ in self._source_handled and
\* hash(func) == self._source_handled[func.__name__]
SourceCached(handled, fn) ==
    handled[fn.name] # NoEntry /\ handled[fn.name] = HashEntry(fn.hash)

\* _source_handle(func)
SourceHandle(st, fn) ==
    IF SourceCached(st.handled, fn) THEN st
    ELSE IF ~fn.src THEN Under(st, "OSError")
    ELSE [handled |-> [st.handled EXCEPT ![fn.name] = HashEntry(fn.hash)],
          remote |-> st.remote \cup {fn.name},
          sent |-> Append(st.sent, Source(fn)),
          exc |-> st.exc]

\* _handle_module(mod_name): RunFailedError of the import is dropped.
HandleModule(st, m) ==
    IF m = "" \/ st.handled[m] # NoEntry THEN st
    ELSE IF m \notin Importable
    THEN [st EXCEPT !.sent = Append(@, Import(m))]
    ELSE [handled |-> [st.handled EXCEPT ![m] = ModuleEntry],
          remote |-> st.remote \cup {m},
          sent |-> Append(st.sent, Import(m)),
          exc |-> st.exc]

\* self.run_string(f"{name} = getattr({mod_name}, ...)") and
\* self.run_string(f"{name} = {mod_name}"): NameError in the worker, hence
\* RunFailedError here, when mod_name is not bound there.
RunAssign(st, n, m) ==
    IF m \in st.remote
    THEN [st EXCEPT !.remote = @ \cup {n}, !.sent = Append(@, Assign(n, m))]
    ELSE Under([st EXCEPT !.sent = Append(@, Assign(n, m))], "RunFailedError")

\* One round of the loop over main_globals.items(), for the target func.
Visit(st, func, n, obj) ==
    IF obj.kind = "function"
    THEN IF obj.mod = "__main__"
         THEN SourceHandle(st, obj)
         ELSE LET s1 == HandleModule(st, obj.mod)
              IN  IF s1.handled[func.name] = NoEntry
                  THEN RunAssign(s1, n, obj.mod)
                  ELSE s1
    ELSE IF obj.kind = "module"
    THEN LET s1 == HandleModule(st, obj.name)
         IN  IF obj.name # n /\ s1.handled[n] = NoEntry
             THEN RunAssign(s1, n, obj.name)
             ELSE s1
    ELSE st

\* The loop from its i-th round on; an exception ends it.
RECURSIVE Walk(_, _, _)
Walk(i, st, func) ==
    IF i > Len(GlobalOrder) \/ st.exc # "none" THEN st
    ELSE Walk(i + 1,
              Visit(st, func, GlobalOrder[i], main_globals[GlobalOrder[i]]),
              func)

\* _prepare_interactive(func) for the function bound to f, and the rest of
\* execute(): the trigger is sent when nothing was raised before it.
PrepareInteractive ==
    /\ main_globals["f"].kind = "function"
    /\ LET func == main_globals["f"]
           s0 == [handled |-> source_handled, remote |-> remote,
                  sent |-> <<>>, exc |-> "none"]
           s1 == SourceHandle(s0, func)
           s2 == Walk(1, s1, func)
       IN  /\ source_handled' = s2.handled
           /\ remote' = s2.remote
           /\ rlast' = [exc |-> s2.exc, sent |-> s2.sent,
                        trigger |-> s2.exc = "none",
                        before |-> source_handled["f"]]
    /\ UNCHANGED main_globals

\* The controller binds a name at the prompt (def, import, from-import).
Bind(n, obj) ==
    /\ main_globals[n] # obj
    /\ main_globals' = [main_globals EXCEPT ![n] = obj]
    /\ UNCHANGED <<source_handled, remote, rlast>>

\* The worker as start() leaves it.
ReplStarted ==
    /\ intno = FirstId
    /\ file = "open"
    /\ fs = TRUE
    /\ map = "open"
    /\ mem = ZeroFile
    /\ thread = 0
    /\ exception = 0
    /\ running_interpreters = {Self}
    /\ interp = [live |-> {FirstId}, running |-> {}]
    /\ ctx = IdleCtx
    /\ callers = [c \in Callers |-> IF c = 0 THEN MainReady ELSE FreeSlot]
    /\ last = MkLast("start", "none", NoObj, FALSE, NotCalled)
    /\ cur = NoCall
    /\ ncalls = 0
    /\ lock = 0
    /\ ctl = [t \in Controllers |-> Outside("none", "none")]
    /\ fname = FirstId
    /\ disk = {FirstId}
    /\ created = 1

\* The worker itself, which replication does not touch.
worker == <<intno, file, fs, map, mem, thread, exception,
            running_interpreters, interp, ctx, callers, last, cur, ncalls,
            lifevars>>

ReplNext ==
    \/ PrepareInteractive /\ UNCHANGED worker
    \/ \E n \in GlobalNames : \E obj \in Bindable(n) :
          Bind(n, obj) /\ UNCHANGED worker

\* A started worker, and a session with nothing replicated yet.
ReplBegin == ReplStarted /\ ReplInit

ReplSpec == ReplBegin /\ [][ReplNext]_vars

\* ================================================================ claims
\* A step of execute() for request r, up to the trigger, in any caller.
ExecuteStep(r) ==
    \/ Execute(r.func, r.args)
    \/ Run(r.func, r.args)
    \/ \E t \in Threads : /\ callers[t].func = r.func
                          /\ callers[t].args = r.args
                          /\ ThreadExecute(t)

Started == intno \in interp.live /\ map = "open"
RetRegion(m) == [i \in RET_OFFSET .. (BFSZ - 1) |-> m[i]]

\* A first byte of the return region that a finished call wrote: the head
\* of its result, or the error flag.
LeftByCall(cell) == cell = TrueByte \/ (cell.op = "PROTO" /\ cell.kind = "ret")

\* C1: on a started worker with no other call under way, run() of every
\* encodable request smaller than the payload region [0, RET_OFFSET) sends
\* the trigger (the request is not refused), and what run() returns is what
\* the callable returns locally.
C1_RunRoundTrip ==
    /\ [][\A r \in Requests :
            (/\ Started /\ Quiet
             /\ Encodable(r.func, r.args)
             /\ RequestSize(r.func, r.args) < PAYLOAD_BUFFER
             /\ Run(r.func, r.args))
            => /\ callers'[0].pc = "waiting"
               /\ ctx'.pc = "thaw"]_vars
    /\ [](last.op = "run" /\ last.exc = "none" /\ cur.solo
            => ~cur.want.exc /\ last.ret = cur.want.obj)

\* C2: close() on a worker that is closed already does not raise and does
\* not call interpreters.destroy again.
C2_SecondCloseNoOp ==
    [][(intno = FalseId /\ Close)
         => /\ last'.exc = "none"
            /\ last'.destroy = NotCalled
            /\ UNCHANGED <<intno, file, fs, map, interp>>]_vars

\* C3: when the request is as large as the payload region or larger, or
\* cannot be encoded, execute() raises before the trigger: nothing is sent
\* to the worker and the return region, its first byte (the completion flag)
\* included, is as it was.
C3_RejectedRequestLeavesWorker ==
    [][\A r \in Requests :
         (/\ Started
          /\ RequestSize(r.func, r.args) >= PAYLOAD_BUFFER \/ ~Encodable(r.func, r.args)
          /\ ExecuteStep(r))
         => /\ SendExc(r.func, r.args) # "none"
            /\ ctx' = ctx /\ interp' = interp
            /\ RetRegion(mem') = RetRegion(mem)]_vars

\* C4: while the worker is on a call that was issued with no other call
\* under way and has not written anything of its result, the completion
\* flag is zero, so that done() returns false; also when an earlier call
\* has left its result or its error flag in the return region.
C4_DoneFalseUntilWritten ==
    (/\ cur.solo /\ cur.st = "inflight"
     /\ ctx.pc = "thaw" /\ map = "open"
     /\ mem[RET_OFFSET] = Zero \/ LeftByCall(mem[RET_OFFSET]))
        => ~Flag

\* C5: result() called on an open worker while done() is false raises
\* InvalidState.
C5_ResultBeforeDoneInvalidState ==
    (last.op = "result" /\ last.exc # "AttributeError" /\ ~last.flag)
        => last.exc = "InvalidState"

\* C6: the value run() returns, and the value result() returns once done()
\* is true, is the result of the call issued last (calls issued one after
\* the other, none while another is under way).
C6_OwnResult ==
    (/\ last.op \in {"run", "result"}
     /\ last.exc = "none"
     /\ last.flag
     /\ cur.solo)
        => ~cur.want.exc /\ last.ret = cur.want.obj

\* C7: close() while the sub-interpreter is running raises RuntimeError and
\* leaves the worker, the sub-interpreter, the file, the threads and the
\* registry as they were.
C7_CloseWhileRunning ==
    [][(intno \in interp.running /\ Close)
         => /\ last'.op = "close" /\ last'.exc = "RuntimeError"
            /\ UNCHANGED <<intno, file, fs, map, mem, thread, exception,
                           running_interpreters, interp, ctx, callers>>]_vars

\* A close() has just been refused because the call is still running.
C7_Witness ==
    /\ last.op = "close" /\ last.exc = "RuntimeError"
    /\ intno \in interp.running
    /\ ctx.pc # "idle"

\* C8: start() on a worker whose intno is not None raises RuntimeError and
\* changes nothing.
C8_StartTwice ==
    [][(intno # NoneId /\ Start)
         => /\ last'.op = "start" /\ last'.exc = "RuntimeError"
            /\ UNCHANGED <<intno, file, fs, map, mem, thread, exception,
                           running_interpreters, interp, ctx, callers>>]_vars

\* start() has just been refused on a closed worker.
C8_Witness ==
    /\ last.op = "start" /\ last.exc = "RuntimeError"
    /\ intno = FalseId
    /\ interp.live = {}

\* C9: when run_string raises RunFailedError, execute() sets the completion
\* flag to a nonzero byte, keeps the error in self.exception and raises it:
\* the caller's execute() is over and the flag is not zero.
C9_TriggerFailure ==
    [][\A c \in Callers :
         (ctx.pc = "raised" /\ Resume(c))
         => /\ mem'[RET_OFFSET] # Zero
            /\ exception' = callers[c].func.val
            /\ callers'[c].pc \in {"ready", "free", "finished"}
            /\ c = 0 => last'.exc = "RunFailedError"]_vars

\* A call has just failed in the worker, on a return region that was zero.
C9_Witness ==
    /\ exception # 0
    /\ mem[RET_OFFSET] = TrueByte
    /\ last.exc = "RunFailedError"
    /\ cur.st = "failed"

\* C10: a run_in_thread call that failed (in encoding, or in the worker) is
\* reported by result(), which raises that call's error: result() on the
\* open worker returns no value for the failed call.
C10_ThreadFailureAtResult ==
    (/\ last.op = "result"
     /\ Started
     /\ cur.how = "thread" /\ cur.solo
     /\ cur.st = "failed")
        => last.exc # "none"

\* A call is in flight: triggered, and its completion flag still unset.
InFlight == Started /\ intno \in interp.running /\ ~Flag

\* C11: a run_in_thread() or execute() issued while a call is in flight is
\* rejected as a caller error: it raises, starts no thread and leaves the
\* payload the worker is decoding as it is.
C11_SecondCallRejected ==
    [][\A r \in Requests :
         (InFlight /\ (RunInThread(r.func, r.args) \/ Execute(r.func, r.args)))
         => /\ last'.exc \notin {"none", InCall}
            /\ thread' = thread
            /\ callers' = callers
            /\ mem' = mem]_vars

\* C12: list_all() holds exactly the workers that were started and are not
\* closed, and the registry changes only in the worker's start() (which adds
\* it) and in its close(), called directly or by __del__ (which removes it).
C12_RegistryTracksStarted ==
    /\ [](list_all = IF Started THEN {Self} ELSE {})
    /\ [][list_all' # list_all =>
            \/ Start /\ list_all' = list_all \cup {Self}
            \/ (Close \/ Del) /\ list_all' = list_all \ {Self}]_vars

\* The worker has been started, used and closed, and has left the registry.
C12_Witness ==
    /\ last.op = "close" /\ last.exc = "none"
    /\ list_all = {}
    /\ ncalls > 0

\* C13: when the worker is finalized, close() is run (destroy is attempted)
\* exactly when the worker is started and not closed; afterwards no
\* sub-interpreter of the worker is live and its file is gone.
C13_FinalizeCloses ==
    [][Del => /\ (last'.destroy # NotCalled) <=> Started
              /\ interp'.live = {}
              /\ fs' = FALSE
              /\ last'.exc = "none"]_vars

\* A worker that was started and used has been finalized while open.
C13_Witness ==
    /\ callers[0].pc = "gone"
    /\ last.op = "__del__" /\ last.destroy = FirstId
    /\ interp.live = {} /\ ~fs
    /\ ncalls > 0

\* C14: execute() and run() on a worker that is not started or is closed
\* raise the lifecycle error of execute() ("Sub-interpreter not
\* initialized"), write nothing and send nothing.
C14_ExecuteNeedsStarted ==
    [][\A r \in Requests :
         (~Started /\ (Execute(r.func, r.args) \/ Run(r.func, r.args)))
         => /\ last'.exc = "RuntimeError(not initialized)"
            /\ mem' = mem /\ ctx' = ctx /\ interp' = interp]_vars

\* C20: for the first call of a worker, issued with run_in_thread and
\* completing normally, result() called once done() is true decodes the
\* complete result of the call: the flag byte is never seen set while bytes
\* of the result are still to be written.
C20_NoPartialResult ==
    (/\ last.op = "result" /\ last.flag
     /\ ncalls = 1
     /\ cur.how = "thread"
     /\ cur.st \in {"writing", "written", "ok"})
        => last.exc = "none" /\ last.ret = cur.want.obj

\* C15: once the thread of a run_in_thread call has triggered the remote
\* execution, done() eventually returns true, whether the callable returns
\* or raises in the worker.
C15_ThreadedCallGetsDone ==
    (\E t \in Threads : callers[t].pc = "waiting") ~> (map = "open" /\ Flag)

\* A threaded call on a fresh worker has failed in the worker, and the flag
\* is set.
C15_Witness ==
    /\ ncalls = 1
    /\ cur.how = "thread" /\ cur.st = "failed"
    /\ exception # 0
    /\ map = "open" /\ Flag

\* C19: when controller threads call start() on the unstarted worker at the
\* same time, one of them creates the sub-interpreter and the file and the
\* others raise "already started": interpreters.create() is called once, and
\* every live sub-interpreter and every backing file on disk is the one the
\* worker holds.
C19_ConcurrentStart ==
    /\ created <= 1
    /\ interp.live \subseteq {intno}
    /\ disk \subseteq {fname}

\* How many times code c was sent in the last call with an ad hoc callable.
TimesSent(c, sent) == Cardinality({i \in 1 .. Len(sent) : sent[i] = c})

\* C16: when replication goes through, every name of the controller's scope
\* bound to a function imported from a module has that module imported in
\* the worker and is bound there (by attribute lookup: the source of the
\* function is not sent).
C16_ImportedFunctionBound ==
    [][\A n \in GlobalNames :
         (/\ PrepareInteractive
          /\ rlast'.exc = "none"
          /\ main_globals[n].kind = "function"
          /\ main_globals[n].mod # "__main__")
         => /\ main_globals[n].mod \in remote'
            /\ n \in remote'
            /\ TimesSent(Source(main_globals[n]), rlast'.sent) = 0]_vars

\* C17: when the source of the target callable can be sent, replication
\* does not abort the call: bindings that cannot be replicated are skipped
\* and the trigger is sent.
C17_UnrelatedFailureSkipped ==
    [][(PrepareInteractive /\ main_globals["f"].src)
         => rlast'.exc = "none" /\ rlast'.trigger]_vars

\* C18: in a call that replication does not abort, the source of every
\* function of __main__ whose source is available is sent once when the
\* cache has no entry for its name or another fingerprint, and not at all
\* when the cache has its fingerprint; afterwards the cache has it.
C18_ShippedOncePerFingerprint ==
    [][\A n \in {"f", "g"} :
         (/\ PrepareInteractive
          /\ rlast'.exc = "none"
          /\ main_globals[n].kind = "function"
          /\ main_globals[n].src)
         => /\ TimesSent(Source(main_globals[n]), rlast'.sent)
                 = IF source_handled[n] = HashEntry(main_globals[n].hash)
                   THEN 0 ELSE 1
            /\ source_handled'[n] = HashEntry(main_globals[n].hash)]_vars

\* The target was redefined after its source had been sent, and the new
\* source was sent in the last call.
C18_Witness ==
    /\ rlast.exc = "none"
    /\ rlast.before = HashEntry(1)
    /\ source_handled["f"] = HashEntry(2)
    /\ TimesSent(Source(Def("f", 2, TRUE)), rlast.sent) = 1
    /\ "f" \in remote
====
